---- MODULE Spec2Model ----
(***************************************************************************)
(* Host driver (interface_fpga.py) and UART testbench (test/test.py) of    *)
(* the 2x2 matrix-multiply accelerator.                                    *)
(*                                                                         *)
(* Spec runs one of the repository's programs, chosen in Init:             *)
(*   "driver"    the QSPIMatrixMultiplier class used as a library: its     *)
(*               constructor, multiply_matrices and close in any order;    *)
(*   "main"      the example flow under  if __name__ == "__main__";        *)
(*   "testbench" test_full_matrix_mult_system against a simulated device.  *)
(* MaskSpec applies multiply_matrices to every element value of a range,   *)
(* UartSpec applies receive_uart_byte to a frame of every byte value.      *)
(***************************************************************************)
EXTENDS Integers, Sequences, FiniteSets, TLC

VARIABLES
    program,        \* which program of the repository runs
    \* ---- interface_fpga.py
    client,         \* the QSPIMatrixMultiplier object: "none" | "open" | "closed"
    attempts,       \* constructor invocations so far
    ctor,           \* the last constructor invocation: its inputs and what it raised
    ops,            \* every call made on the transport library, in order
    calls,          \* multiply_matrices invocations so far
    call,           \* the last multiply_matrices invocation
    main_pc,        \* position in the example flow
    verdict,        \* what the example flow printed: "none" | "success" | "warning" | "error"
    \* ---- test/test.py
    tb_pc,          \* position in the testbench coroutine
    now,            \* clock cycles since the start of the simulation
    uart_rx,        \* level the testbench drives on dut.uart_rx
    rx_wave,        \* every <<level, cycles>> the testbench has held on uart_rx
    sent,           \* bytes whose frame has been completely driven
    bit_i,          \* loop index of the data-bit loops
    dut,            \* the device's response schedule on uart_tx
    caught,         \* times at which an awaited FallingEdge(uart_tx) fired
    samples,        \* times at which receive_uart_byte read uart_tx, current frame
    byte_received,  \* receive_uart_byte's accumulator
    result          \* the testbench's list of received bytes

drvVars == <<client, attempts, ctor, ops, calls, call, main_pc, verdict>>
tbVars == <<tb_pc, now, uart_rx, rx_wave, sent, bit_i, dut, caught, samples,
            byte_received, result>>
vars == <<program, drvVars, tbVars>>

----------------------------------------------------------------------------
(* Bounds of the model *)

MaxCalls == 2
MaxAttempts == 1
MaxCloses == 1
MaxElem == 300

----------------------------------------------------------------------------
(* interface_fpga.py: pure parts *)

Pow2(n) == 2 ^ n

\* Python's x >> i on an unbounded two's-complement int: floor division
Shr(x, i) == x \div Pow2(i)

RECURSIVE LowBits(_, _)
\* x & (2^n - 1), bit by bit
LowBits(x, n) ==
    IF n = 0 THEN 0
    ELSE (Shr(x, n - 1) % 2) * Pow2(n - 1) + LowBits(x, n - 1)

Mask8NoMask(x) == x
\* int(x) & 0xFF
Mask8(x) == LowBits(x, 8)

\* bytes([...]) raises ValueError unless every element is in range(256)
BytesOk(s) == \A i \in 1..Len(s) : s[i] \in 0..255

\* ndarray.flatten().tolist() is row-major (C order); the list branch indexes
\* [0][0], [0][1], [1][0], [1][1]
Flat(m, isNd) ==
    IF isNd THEN m[1] \o m[2]
    ELSE <<m[1][1], m[1][2], m[2][1], m[2][2]>>

MaskAll(s) == [i \in 1..Len(s) |-> Mask8(s[i])]

WriteDataSwapped(a, b, aNd, bNd) == MaskAll(Flat(b, bNd)) \o MaskAll(Flat(a, aNd))
\* write_data = a_bytes + b_bytes
WriteData(a, b, aNd, bNd) == MaskAll(Flat(a, aNd)) \o MaskAll(Flat(b, bNd))

\* bytearray(4)
ResultBuffer == <<0, 0, 0, 0>>

\* self.spi.exchange(write_data, result_bytes): pyftdi's SpiPort.exchange(out,
\* readlen, ...) takes a length as its second argument and RETURNS the bytes
\* read. The driver hands it the bytearray and drops the return value, so the
\* bytearray it goes on to read is the one it built: nothing writes to it.
BufferAfterExchange(buf, inbound) == buf

\* np.array([[r[0], r[1]], [r[2], r[3]]])
ResultMatrix(buf) == <<<<buf[1], buf[2]>>, <<buf[3], buf[4]>>>>

\* A @ B on Python/numpy integers (no wrap)
MatMul(a, b) ==
    <<<<a[1][1] * b[1][1] + a[1][2] * b[2][1], a[1][1] * b[1][2] + a[1][2] * b[2][2]>>,
      <<a[2][1] * b[1][1] + a[2][2] * b[2][1], a[2][1] * b[1][2] + a[2][2] * b[2][2]>>>>

\* The accelerator itself (hardware description, not in the host sources): the
\* row-major product of the two matrices it was sent, each entry kept to 8 bits.
DutProduct(w) ==
    LET p == MatMul(<<<<w[1], w[2]>>, <<w[3], w[4]>>>>, <<<<w[5], w[6]>>, <<w[7], w[8]>>>>)
    IN  <<p[1][1] % 256, p[1][2] % 256, p[2][1] % 256, p[2][2] % 256>>

SampleA == <<<<1, 2>>, <<3, 4>>>>
SampleB == <<<<5, 6>>, <<7, 8>>>>

\* Input matrices tried by the library client
Matrices == { SampleA, SampleB, <<<<-1, 256>>, <<-129, 1000>>>> }

\* What the device may shift back during one exchange: 4 bytes, or fewer
Responses == { <<19, 22, 43, 50>>, <<255, 1, 2, 3>>, <<19, 22>>, <<>> }

NoCtor == [url |-> "unset", found |-> FALSE, cfg |-> "ok", port |-> "ok", raised |-> "none"]
NoCall == [a |-> <<>>, b |-> <<>>, write |-> <<>>, slept |-> FALSE, inbound |-> <<>>,
           buf |-> <<>>, result |-> <<>>, raised |-> "none"]

\* What one exchange may do: raise, or return what the device shifted back
Outcomes == {<<"raise", <<>>>>} \cup {<<"bytes", r>> : r \in Responses}

Op(name, outLen, bufLen) == [op |-> name, out |-> outLen, buf |-> bufLen]

----------------------------------------------------------------------------
(* QSPIMatrixMultiplier.__init__ *)

CtorRaisesSwallowed(url, found, cfg, port) == "none"
\* What the constructor raises: RuntimeError when no URL is given and
\* Ftdi.find_all() is empty; otherwise whatever configure or get_port raises,
\* re-raised by the bare raise of the except clause
CtorRaises(url, found, cfg, port) ==
    IF url = "None" /\ ~found THEN "RuntimeError"
    ELSE IF cfg = "raise" THEN "ConfigureError"
    ELSE IF port = "raise" THEN "PortError"
    ELSE "none"

\* The transport calls the constructor makes before it returns or raises
CtorOps(url, found, cfg, port) ==
    IF url = "None" /\ ~found THEN <<>>
    ELSE IF cfg = "raise" THEN <<Op("configure", 0, 0)>>
    ELSE <<Op("configure", 0, 0), Op("get_port", 0, 0)>>

\* The constructor's argument and what the library does under it: whether
\* Ftdi.find_all() finds a device (asked only when no URL is given), whether
\* configure raises, whether get_port raises (called only after configure)
CtorInputs ==
    { e \in {"None", "custom"} \X BOOLEAN \X {"ok", "raise"} \X {"ok", "raise"} :
        /\ (e[1] = "custom" => e[2])
        /\ (e[1] = "None" /\ ~e[2] => e[3] = "ok" /\ e[4] = "ok")
        /\ (e[3] = "raise" => e[4] = "ok") }

QSPIMatrixMultiplier_init(url, found, cfg, port) ==
    LET r == CtorRaises(url, found, cfg, port)
    IN  /\ attempts' = attempts + 1
        /\ ctor' = [url |-> url, found |-> found, cfg |-> cfg, port |-> port, raised |-> r]
        /\ ops' = ops \o CtorOps(url, found, cfg, port)
        /\ client' = IF r = "none" THEN "open" ELSE "none"

----------------------------------------------------------------------------
(* QSPIMatrixMultiplier.multiply_matrices *)

ExchangeOpsRetry(w) ==
    <<Op("sleep", 0, 0), Op("exchange", Len(w), Len(ResultBuffer)),
      Op("exchange", Len(w), Len(ResultBuffer))>>
\* time.sleep(0.01); self.spi.exchange(write_data, result_bytes)
ExchangeOps(w) == <<Op("sleep", 0, 0), Op("exchange", Len(w), Len(ResultBuffer))>>

\* outcome: what the library's exchange does: it raises ("raise"), or it
\* returns the bytes the device shifted back
multiply_matrices(a, b, aNd, bNd, outcome) ==
    \E w \in {WriteData(a, b, aNd, bNd)}, buf \in {BufferAfterExchange(ResultBuffer, outcome[2])} :
        /\ calls' = calls + 1
        /\ IF ~BytesOk(w)
           THEN /\ call' = [NoCall EXCEPT !.a = a, !.b = b, !.raised = "ValueError"]
                /\ ops' = ops
           ELSE /\ ops' = ops \o ExchangeOps(w)
                /\ IF outcome[1] = "raise"
                   THEN call' = [NoCall EXCEPT !.a = a, !.b = b, !.write = w, !.slept = TRUE,
                                               !.raised = "ExchangeError"]
                   ELSE call' = [a |-> a, b |-> b, write |-> w, slept |-> TRUE,
                                 inbound |-> outcome[2],
                                 buf |-> buf,
                                 result |-> ResultMatrix(buf),
                                 raised |-> "none"]

\* close(): self.spi_controller.terminate()
close ==
    /\ ops' = ops \o <<Op("terminate", 0, 0)>>
    /\ client' = "closed"

----------------------------------------------------------------------------
(* interface_fpga.py used as a library: any order of calls on one client *)

Count(name) == Cardinality({i \in 1..Len(ops) : ops[i].op = name})

DrvConstruct ==
    /\ program = "driver"
    /\ client = "none"
    /\ attempts < MaxAttempts
    /\ \E e \in CtorInputs : QSPIMatrixMultiplier_init(e[1], e[2], e[3], e[4])
    /\ UNCHANGED <<program, calls, call, main_pc, verdict, tbVars>>

\* Nothing in the class refuses a call on a closed client
DrvMultiply ==
    /\ program = "driver"
    /\ client \in {"open", "closed"}
    /\ calls < MaxCalls
    /\ \E a, b \in Matrices, aNd, bNd \in BOOLEAN, outcome \in Outcomes :
           multiply_matrices(a, b, aNd, bNd, outcome)
    /\ UNCHANGED <<program, client, attempts, ctor, main_pc, verdict, tbVars>>

DrvClose ==
    /\ program = "driver"
    /\ client \in {"open", "closed"}
    /\ Count("terminate") < MaxCloses
    /\ close
    /\ UNCHANGED <<program, attempts, ctor, calls, call, main_pc, verdict, tbVars>>

----------------------------------------------------------------------------
(* interface_fpga.py: the example flow under __main__ *)

\* try_custom = input(...); ftdi_url = None, or what the user types
MainPrompt ==
    /\ program = "main"
    /\ main_pc = "prompt"
    /\ \E url \in {"None", "custom"} : ctor' = [NoCtor EXCEPT !.url = url]
    /\ main_pc' = "construct"
    /\ UNCHANGED <<program, client, attempts, ops, calls, call, verdict, tbVars>>

\* matrix_mult = QSPIMatrixMultiplier(ftdi_url); a raise lands in
\* except Exception, which prints, and then in finally
MainConstruct ==
    /\ program = "main"
    /\ main_pc = "construct"
    /\ \E e \in {x \in CtorInputs : x[1] = ctor.url} :
           /\ QSPIMatrixMultiplier_init(e[1], e[2], e[3], e[4])
           /\ IF CtorRaises(e[1], e[2], e[3], e[4]) = "none"
              THEN main_pc' = "multiply" /\ verdict' = verdict
              ELSE main_pc' = "finally" /\ verdict' = "error"
    /\ UNCHANGED <<program, calls, call, tbVars>>

\* result = matrix_mult.multiply_matrices(A, B) on the two sample ndarrays
MainMultiply ==
    /\ program = "main"
    /\ main_pc = "multiply"
    /\ \E outcome \in Outcomes :
           /\ multiply_matrices(SampleA, SampleB, TRUE, TRUE, outcome)
           /\ IF outcome[1] = "raise"
              THEN main_pc' = "finally" /\ verdict' = "error"
              ELSE main_pc' = "compare" /\ verdict' = verdict
    /\ UNCHANGED <<program, client, attempts, ctor, tbVars>>

\* expected = A @ B; np.array_equal(result, expected)
MainCompare ==
    /\ program = "main"
    /\ main_pc = "compare"
    /\ verdict' = IF call.result = MatMul(SampleA, SampleB) THEN "success" ELSE "warning"
    /\ main_pc' = "finally"
    /\ UNCHANGED <<program, client, attempts, ctor, ops, calls, call, tbVars>>

\* finally: if 'matrix_mult' in locals(): matrix_mult.close()
MainFinally ==
    /\ program = "main"
    /\ main_pc = "finally"
    /\ IF client # "none" THEN close ELSE UNCHANGED <<ops, client>>
    /\ main_pc' = "exit"
    /\ UNCHANGED <<program, attempts, ctor, calls, call, verdict, tbVars>>

----------------------------------------------------------------------------
(* test/test.py: constants and the framing *)

uart_cycles_per_bit == 1042
uart_cycles_per_half_bit == 521
wait_cycles == 250000
reset_cycles == 10
final_cycles == 1000

matrix_a == <<1, 2, 3, 4>>
matrix_b == <<5, 6, 7, 8>>
expected == <<19, 22, 43, 50>>

\* The bytes the two send loops go through, in order
to_send == matrix_a \o matrix_b

SendBitMsbFirst(byte, i) == Shr(byte, 7 - i) % 2
\* bit = (byte_to_send >> i) & 1
SendBit(byte, i) == Shr(byte, i) % 2

\* The ten levels send_uart_byte holds for one bit period each: start bit,
\* data bits 0..7, stop bit
FrameLevels(byte) == <<0>> \o [k \in 1..8 |-> SendBit(byte, k - 1)] \o <<1>>

FrameCycles == 10 * uart_cycles_per_bit

Hold(level, cycles) ==
    /\ uart_rx' = level
    /\ rx_wave' = Append(rx_wave, <<level, cycles>>)
    /\ now' = now + cycles

----------------------------------------------------------------------------
(* The device on uart_tx: after the eighth input byte it sends its result as  *)
(* frames of the same framing and bit period, the first one dut.start cycles  *)
(* into the simulation, the next ones dut.gap idle cycles after the stop bit  *)
(* of the one before. uart_tx idles high.                                     *)

NoDut == [scheduled |-> FALSE, start |-> 0, gap |-> 0, bytes |-> <<>>]

ListenDelay == 2 * uart_cycles_per_bit + wait_cycles

\* Cycles from the end of the eighth stop bit to the first start bit
Latencies ==
    { 1, wait_cycles \div 2, ListenDelay - FrameCycles - 1,
      ListenDelay - 4 * uart_cycles_per_bit, ListenDelay - 1,
      ListenDelay, ListenDelay + 1, ListenDelay + FrameCycles }

Gaps == {0, uart_cycles_per_bit, 3 * uart_cycles_per_bit + 7}

DutBytes == { expected, <<19, 22, 43, 51>>, <<0, 255, 170, 85>> }

FrameStart(k) == dut.start + (k - 1) * (FrameCycles + dut.gap)

\* Level of uart_tx during cycle t
TxAt(t) ==
    IF \E k \in 1..Len(dut.bytes) : FrameStart(k) <= t /\ t < FrameStart(k) + FrameCycles
    THEN LET k == CHOOSE k \in 1..Len(dut.bytes) :
                      FrameStart(k) <= t /\ t < FrameStart(k) + FrameCycles
         IN  FrameLevels(dut.bytes[k])[(t - FrameStart(k)) \div uart_cycles_per_bit + 1]
    ELSE 1

\* Times at which uart_tx goes from 1 to 0
FallingEdges ==
    { t \in { FrameStart(k) + j * uart_cycles_per_bit :
                  k \in 1..Len(dut.bytes), j \in 0..9 } :
          TxAt(t - 1) = 1 /\ TxAt(t) = 0 }

\* An edge the device makes on the clock edge the testbench resumes on is still
\* ahead of an await FallingEdge that starts there
EdgesFrom(t) == { e \in FallingEdges : e >= t }

NextFallingEdge(t) == CHOOSE e \in EdgesFrom(t) : \A f \in EdgesFrom(t) : e <= f

DutRespond ==
    /\ program = "testbench"
    /\ tb_pc = "gap"
    /\ Len(sent) = Len(to_send)
    /\ ~dut.scheduled
    /\ \E lat \in Latencies, gap \in Gaps, bytes \in DutBytes :
           dut' = [scheduled |-> TRUE, start |-> now + lat, gap |-> gap, bytes |-> bytes]
    /\ UNCHANGED <<program, drvVars, tb_pc, now, uart_rx, rx_wave, sent, bit_i,
                   caught, samples, byte_received, result>>

----------------------------------------------------------------------------
(* test_full_matrix_mult_system: reset, idle, the two send loops, the wait *)

sendUnchanged == <<program, drvVars, dut, caught, samples, byte_received, result>>

\* dut.rst_n = 0; dut.uart_rx = 1; await ClockCycles(10)
TbReset ==
    /\ program = "testbench"
    /\ tb_pc = "reset"
    /\ Hold(1, reset_cycles)
    /\ tb_pc' = "release"
    /\ UNCHANGED <<sent, bit_i, sendUnchanged>>

\* dut.rst_n = 1; await ClockCycles(10)
TbRelease ==
    /\ program = "testbench"
    /\ tb_pc = "release"
    /\ Hold(uart_rx, reset_cycles)
    /\ tb_pc' = "idle"
    /\ UNCHANGED <<sent, bit_i, sendUnchanged>>

\* dut.uart_rx = 1; await ClockCycles(2 bit periods)
TbIdle ==
    /\ program = "testbench"
    /\ tb_pc = "idle"
    /\ Hold(1, 2 * uart_cycles_per_bit)
    /\ tb_pc' = "start"
    /\ UNCHANGED <<sent, bit_i, sendUnchanged>>

SendStartBit ==
    /\ program = "testbench"
    /\ tb_pc = "start"
    /\ Hold(0, uart_cycles_per_bit)
    /\ bit_i' = 0
    /\ tb_pc' = "data"
    /\ UNCHANGED <<sent, sendUnchanged>>

SendDataBit ==
    /\ program = "testbench"
    /\ tb_pc = "data"
    /\ Hold(SendBit(to_send[Len(sent) + 1], bit_i), uart_cycles_per_bit)
    /\ bit_i' = bit_i + 1
    /\ tb_pc' = IF bit_i' = 8 THEN "stop" ELSE "data"
    /\ UNCHANGED <<sent, sendUnchanged>>

SendStopBit ==
    /\ program = "testbench"
    /\ tb_pc = "stop"
    /\ Hold(1, uart_cycles_per_bit)
    /\ sent' = Append(sent, to_send[Len(sent) + 1])
    /\ tb_pc' = "gap"
    /\ UNCHANGED <<bit_i, sendUnchanged>>

\* The idle after the stop bit; then the next byte of the loops, or the wait
SendInterByte ==
    /\ program = "testbench"
    /\ tb_pc = "gap"
    /\ Len(sent) < Len(to_send) \/ dut.scheduled
    /\ Hold(uart_rx, 2 * uart_cycles_per_bit)
    /\ tb_pc' = IF Len(sent) < Len(to_send) THEN "start" ELSE "wait"
    /\ UNCHANGED <<sent, bit_i, sendUnchanged>>

\* await ClockCycles(dut.clk, wait_cycles)
TbWait ==
    /\ program = "testbench"
    /\ tb_pc = "wait"
    /\ Hold(uart_rx, wait_cycles)
    /\ tb_pc' = "rx_edge"
    /\ UNCHANGED <<sent, bit_i, sendUnchanged>>

----------------------------------------------------------------------------
(* receive_uart_byte, and the receive loop around it *)

rxUnchanged == <<program, drvVars, uart_rx, rx_wave, sent, dut>>

Receiving == program \in {"testbench", "uart"}

\* await FallingEdge(dut.uart_tx): blocks until the next 1 -> 0 of the line,
\* for ever when there is none
RxFallingEdge ==
    /\ Receiving
    /\ tb_pc = "rx_edge"
    /\ EdgesFrom(now) # {}
    /\ now' = NextFallingEdge(now)
    /\ caught' = caught \cup {now'}
    /\ samples' = <<>>
    /\ tb_pc' = "rx_mid"
    /\ UNCHANGED <<bit_i, byte_received, result, rxUnchanged>>

\* Cycles from the falling edge to the check of the start bit
HalfBit == uart_cycles_per_half_bit

\* await ClockCycles(half bit); a line that is not low raises
RxStartBit ==
    /\ Receiving
    /\ tb_pc = "rx_mid"
    /\ now' = now + HalfBit
    /\ IF TxAt(now') # 0
       THEN tb_pc' = "failed" /\ UNCHANGED <<byte_received, bit_i>>
       ELSE tb_pc' = "rx_data" /\ byte_received' = 0 /\ bit_i' = 0
    /\ UNCHANGED <<caught, samples, result, rxUnchanged>>

RecvBitMsbFirst(acc, bit, i) == acc + bit * Pow2(7 - i)
\* byte_received |= (bit << i)
RecvBit(acc, bit, i) ==
    IF Shr(acc, i) % 2 = 1 THEN acc ELSE acc + bit * Pow2(i)

RxDataBit ==
    /\ Receiving
    /\ tb_pc = "rx_data"
    /\ now' = now + uart_cycles_per_bit
    /\ samples' = Append(samples, now')
    /\ byte_received' = RecvBit(byte_received, TxAt(now'), bit_i)
    /\ bit_i' = bit_i + 1
    /\ tb_pc' = IF bit_i' = 8 THEN "rx_stop" ELSE "rx_data"
    /\ UNCHANGED <<caught, result, rxUnchanged>>

\* await ClockCycles(bit period); a line that is not high raises; else the byte
\* is returned and appended to result, and the loop goes on to the next byte
RxStopBit ==
    /\ Receiving
    /\ tb_pc = "rx_stop"
    /\ now' = now + uart_cycles_per_bit
    /\ IF TxAt(now') # 1
       THEN tb_pc' = "failed" /\ result' = result
       ELSE /\ result' = Append(result, byte_received)
            /\ tb_pc' = IF program = "uart" THEN "returned"
                        ELSE IF Len(result') = 4 THEN "verify" ELSE "rx_edge"
    /\ UNCHANGED <<caught, samples, byte_received, bit_i, rxUnchanged>>

\* assert len(result) == 4; for i in range(4): assert result[i] == expected[i]
Passes(r) == Len(r) = 4 /\ \A i \in 1..4 : r[i] = expected[i]

TbVerify ==
    /\ program = "testbench"
    /\ tb_pc = "verify"
    /\ tb_pc' = IF Passes(result) THEN "passed" ELSE "failed"
    /\ UNCHANGED <<program, drvVars, now, uart_rx, rx_wave, sent, bit_i, dut, caught,
                   samples, byte_received, result>>

\* "Test PASSED!", then await ClockCycles(dut.clk, 1000)
TbFinish ==
    /\ program = "testbench"
    /\ tb_pc = "passed"
    /\ Hold(uart_rx, final_cycles)
    /\ tb_pc' = "done"
    /\ UNCHANGED <<sent, bit_i, sendUnchanged>>

----------------------------------------------------------------------------
(* Specifications *)

DrvInit ==
    /\ client = "none"
    /\ attempts = 0
    /\ ctor = NoCtor
    /\ ops = <<>>
    /\ calls = 0
    /\ call = NoCall
    /\ main_pc = "prompt"
    /\ verdict = "none"

TbInit ==
    /\ tb_pc = "reset"
    /\ now = 0
    /\ uart_rx = -1              \* not driven before the reset sequence
    /\ rx_wave = <<>>
    /\ sent = <<>>
    /\ bit_i = 0
    /\ dut = NoDut
    /\ caught = {}
    /\ samples = <<>>
    /\ byte_received = 0
    /\ result = <<>>

Init ==
    /\ program \in {"driver", "main", "testbench"}
    /\ DrvInit
    /\ TbInit

Next ==
    \/ DrvConstruct
    \/ DrvMultiply
    \/ DrvClose
    \/ MainPrompt
    \/ MainConstruct
    \/ MainMultiply
    \/ MainCompare
    \/ MainFinally
    \/ TbReset
    \/ TbRelease
    \/ TbIdle
    \/ SendStartBit
    \/ SendDataBit
    \/ SendStopBit
    \/ SendInterByte
    \/ DutRespond
    \/ TbWait
    \/ RxFallingEdge
    \/ RxStartBit
    \/ RxDataBit
    \/ RxStopBit
    \/ TbVerify
    \/ TbFinish

Spec == Init /\ [][Next]_vars

\* multiply_matrices on a connected client, one element of the two matrices
\* running through -MaxElem..MaxElem
ElemRange == (-MaxElem)..MaxElem

Place(x, p) ==
    LET f == [i \in 1..8 |-> IF i = p THEN x ELSE (matrix_a \o matrix_b)[i]]
    IN  <<<<<<f[1], f[2]>>, <<f[3], f[4]>>>>, <<<<f[5], f[6]>>, <<f[7], f[8]>>>>>>

MaskInit ==
    /\ program = "mask"
    /\ client = "open"
    /\ attempts = 1
    /\ ctor = [url |-> "custom", found |-> TRUE, cfg |-> "ok", port |-> "ok", raised |-> "none"]
    /\ ops = CtorOps("custom", TRUE, "ok", "ok")
    /\ calls = 0
    /\ call = NoCall
    /\ main_pc = "prompt"
    /\ verdict = "none"
    /\ TbInit

MaskMultiply ==
    /\ program = "mask"
    /\ calls = 0
    /\ \E x \in ElemRange, p \in 1..8, nd \in BOOLEAN :
           multiply_matrices(Place(x, p)[1], Place(x, p)[2], nd, nd, <<"bytes", expected>>)
    /\ UNCHANGED <<program, client, attempts, ctor, main_pc, verdict, tbVars>>

MaskNext == MaskMultiply

MaskSpec == MaskInit /\ [][MaskNext]_vars

\* receive_uart_byte listening on a line that carries one frame of byte b,
\* for every b
Bytes == 0..255

FrameDelays == {0, 1, uart_cycles_per_half_bit, 3 * uart_cycles_per_bit}

UartInit ==
    /\ program = "uart"
    /\ DrvInit
    /\ tb_pc = "rx_edge"
    /\ now \in {0, wait_cycles}
    /\ uart_rx = 1
    /\ rx_wave = <<>>
    /\ sent = <<>>
    /\ bit_i = 0
    /\ \E b \in Bytes, d \in FrameDelays :
           dut = [scheduled |-> TRUE, start |-> now + d, gap |-> 0, bytes |-> <<b>>]
    /\ caught = {}
    /\ samples = <<>>
    /\ byte_received = 0
    /\ result = <<>>

UartNext ==
    \/ RxFallingEdge
    \/ RxStartBit
    \/ RxDataBit
    \/ RxStopBit

UartSpec == UartInit /\ [][UartNext]_vars

----------------------------------------------------------------------------
(* Claims *)

RawFlat(a, b) ==
    <<a[1][1], a[1][2], a[2][1], a[2][2], b[1][1], b[1][2], b[2][1], b[2][2]>>

Exchanged == call.slept

\* C1: the outbound buffer of multiply_matrices is 8 bytes, A[0][0], A[0][1],
\* A[1][0], A[1][1], then B[0][0], B[0][1], B[1][0], B[1][1] (each as the byte
\* sent for it), whether the inputs were arrays or nested lists; and the
\* testbench has driven all of matrix A before any byte of matrix B.
C1_PayloadOrder ==
    /\ Exchanged =>
           /\ Len(call.write) = 8
           /\ \A i \in 1..8 : call.write[i] = RawFlat(call.a, call.b)[i] % 256
    /\ Len(sent) <= 8
    /\ \A i \in 1..Len(sent) :
           sent[i] = IF i <= 4 THEN matrix_a[i] ELSE matrix_b[i - 4]

C1_Witness ==
    /\ program = "driver"
    /\ Exchanged
    /\ call.a = SampleB
    /\ call.b = SampleA
    /\ call.write = <<5, 6, 7, 8, 1, 2, 3, 4>>

\* C2: every element x of A or B, negative and above 255 included, goes into
\* the outbound buffer as x mod 256, a value in 0..255; no element makes the
\* call raise or changes the buffer's length.
C2_Masked ==
    calls > 0 =>
        /\ call.raised = "none"
        /\ Len(call.write) = 8
        /\ \A i \in 1..8 :
               /\ call.write[i] = RawFlat(call.a, call.b)[i] % 256
               /\ call.write[i] \in 0..255

C2_Witness ==
    /\ calls = 1
    /\ call.a[1][2] = -129
    /\ call.write[2] = 127

\* C3: the matrix multiply_matrices returns is the 4 bytes the device sent
\* back during the call's exchange, row-major: result[i][j] = inbound[2i+j].
C3_ResultIsInbound ==
    (call.raised = "none" /\ Exchanged /\ Len(call.inbound) = 4) =>
        call.result = <<<<call.inbound[1], call.inbound[2]>>,
                        <<call.inbound[3], call.inbound[4]>>>>

TbProduct == MatMul(<<<<sent[1], sent[2]>>, <<sent[3], sent[4]>>>>,
                    <<<<sent[5], sent[6]>>, <<sent[7], sent[8]>>>>)

C4_TestbenchPart ==
    tb_pc \in {"passed", "done"} =>
        /\ Len(result) = 4
        /\ result = <<TbProduct[1][1], TbProduct[1][2], TbProduct[2][1], TbProduct[2][2]>>

\* C4: for A=[[1,2],[3,4]], B=[[5,6],[7,8]] the driver returns 19, 22, 43, 50
\* when the device answers with the product, and the testbench passes only on
\* exactly 4 received bytes equal to the row-major product of what it sent.
C4_SampleProduct ==
    /\ (program = "main" /\ call.raised = "none" /\ Exchanged
            /\ call.inbound = DutProduct(call.write)) =>
           call.result = <<<<19, 22>>, <<43, 50>>>>
    /\ C4_TestbenchPart

ExchangesWellFormed ==
    /\ Count("exchange") = calls
    /\ Count("sleep") = calls
    /\ \A i \in 1..Len(ops) :
           ops[i].op = "exchange" =>
               /\ ops[i].out = 8
               /\ ops[i].buf = 4
               /\ i > 1
               /\ ops[i - 1].op = "sleep"
    /\ Len(ops) = Count("configure") + Count("get_port") + 2 * calls + Count("terminate")
    /\ Count("configure") <= attempts
    /\ Count("get_port") <= attempts

NoExchangeAfterClose ==
    \A i, j \in 1..Len(ops) :
        (i < j /\ ops[i].op = "terminate") => ops[j].op # "exchange"

\* C5 as stated: one exchange per invocation (8 bytes out, the 4-byte buffer),
\* after the delay, nothing else on the transport, n exchanges after n calls,
\* and no exchange after close().
C5_Original == ExchangesWellFormed /\ NoExchangeAfterClose

\* C5, amended: as stated, except that only the example flow issues no
\* exchange after close(); the class does not refuse multiply_matrices on a
\* closed client, which issues its exchange all the same.
C5_OneExchangePerCall ==
    /\ ExchangesWellFormed
    /\ program = "main" => NoExchangeAfterClose

C5_Witness ==
    /\ program = "driver"
    /\ calls = 2
    /\ Count("exchange") = 2
    /\ Count("terminate") = 1

ConnectionFails ==
    \/ ctor.url = "None" /\ ~ctor.found
    \/ ctor.cfg = "raise"
    \/ ctor.port = "raise"

\* C6: a constructor that finds no FTDI device (no URL given), or whose
\* configure or get_port raises, raises; no client exists afterwards, and the
\* example flow then calls neither multiply_matrices nor close().
C6_CtorFailureRaised ==
    /\ (attempts > 0 /\ ConnectionFails) => ctor.raised # "none"
    /\ ctor.raised # "none" => client = "none"
    /\ (program = "main" /\ ctor.raised # "none") =>
           /\ calls = 0
           /\ Count("exchange") = 0
           /\ Count("terminate") = 0
           /\ main_pc \in {"finally", "exit"}

C6_Witness ==
    /\ program = "main"
    /\ main_pc = "exit"
    /\ ctor.raised = "PortError"
    /\ Len(ops) = 2

Bit == uart_cycles_per_bit

\* Index in rx_wave of the segment before frame k: the two reset holds and the
\* idle come first, and each frame is ten bit periods and the idle after it
FrameBase(k) == 3 + 11 * (k - 1)

\* C7: every byte on uart_rx is a start bit low, the 8 data bits LSB first and
\* a stop bit high, one bit period (1042 cycles) each and no parity bit; the
\* line is high before the first frame and for 2 bit periods after each.
C7_Framing ==
    /\ \A n \in 1..Len(rx_wave) : n <= 3 => rx_wave[n][1] = 1
    /\ Len(rx_wave) >= 3 => rx_wave[3] = <<1, 2 * Bit>>
    /\ Len(sent) > 0 => Len(rx_wave) >= FrameBase(Len(sent)) + 10
    /\ \A k \in 1..Len(sent) :
           /\ rx_wave[FrameBase(k) + 1] = <<0, Bit>>
           /\ \A i \in 0..7 :
                  rx_wave[FrameBase(k) + 2 + i] = <<(sent[k] \div (2 ^ i)) % 2, Bit>>
           /\ rx_wave[FrameBase(k) + 10] = <<1, Bit>>
           /\ Len(rx_wave) > FrameBase(k) + 10 =>
                  rx_wave[FrameBase(k) + 11] = <<1, 2 * Bit>>

C7_Witness ==
    /\ tb_pc = "wait"
    /\ sent = <<1, 2, 3, 4, 5, 6, 7, 8>>
    /\ Len(rx_wave) = 3 + 11 * 8

\* C8: when fewer than 4 bytes come back, multiply_matrices returns the 2x2
\* matrix holding the received bytes in their positions and 0 elsewhere,
\* without a second exchange and without raising.
C8_ShortReadPadded ==
    /\ Count("exchange") = calls
    /\ (Exchanged /\ call.raised = "none" /\ Len(call.inbound) < 4) =>
           \A i \in 1..4 :
               RawFlat(call.result, call.result)[i] =
                   IF i <= Len(call.inbound) THEN call.inbound[i] ELSE 0

\* C9: on a line carrying a frame of byte b with send_uart_byte's framing,
\* receive_uart_byte catches the start bit, reads data bit i inside the
\* (i+1)-th bit period after it, raises nothing and returns b.
C9_ReceiveInverse ==
    /\ tb_pc # "failed"
    /\ caught \subseteq {dut.start}
    /\ \A i \in 1..Len(samples) :
           /\ dut.start + i * Bit <= samples[i]
           /\ samples[i] < dut.start + (i + 1) * Bit
    /\ tb_pc = "returned" => result = dut.bytes

C9_Witness ==
    /\ tb_pc = "returned"
    /\ result = <<165>>
    /\ Len(samples) = 8

\* Blocked for ever in await FallingEdge: the device makes no further edge
Hung == tb_pc = "rx_edge" /\ dut.scheduled /\ EdgesFrom(now) = {}

\* C10: whatever the device's latency after the eighth input byte, no start
\* bit of its four frames goes by while the testbench is not waiting for one,
\* and the testbench is never left waiting for a frame that will not come.
C10_AllCaptured ==
    (program = "testbench" /\ dut.scheduled) =>
        /\ \A k \in 1..Len(dut.bytes) : FrameStart(k) < now => FrameStart(k) \in caught
        /\ ~Hung

====
